---- MODULE Spec2Model ----
(***************************************************************************)
(* Few-shot prompting pipeline of BLESS (src/utils/prompting.py):          *)
(*   RandomExampleSelector      the exemplar pool and its random sampling  *)
(*   prepare_prompted_inputs    prompt assembly for a batch of inputs      *)
(*   postprocess_model_outputs  recovery of hypotheses from raw outputs    *)
(*                                                                         *)
(* A Python str is modelled as a sequence of one-character strings.  The   *)
(* str and re methods the code calls are operators that compute what the   *)
(* Python methods compute (all occurrences, left to right, greedy).        *)
(* An exception leaving a function is a "status" other than "ok".          *)
(***************************************************************************)
EXTENDS Integers, Sequences, FiniteSets, TLC

VARIABLES
    po_call,     \* postprocess_model_outputs: arguments of the last call
    po_status,   \* ... "idle", "ok" (returned) or the exception raised
    po_result,   \* ... trimmed_outputs, when it returned
    po_trace,    \* ... out_seq after each step, per prompt and candidate
    examples,    \* RandomExampleSelector.examples, the exemplar pool
    few_shot_n,  \* RandomExampleSelector.few_shot_n
    n_refs,      \* RandomExampleSelector.n_refs
    se_status,   \* select_examples: "idle", "ok" or the exception raised
    se_result,   \* ... the flattened exemplars returned
    se_draw,     \* ... what random.sample drew (pool positions, references)
    pr_call,     \* prepare_prompted_inputs: arguments of the last call
    pr_status,   \* ... "idle", "ok" or the exception raised
    pr_result,   \* ... prompted_inputs: as returned, or as built when it raised
    pr_draws,    \* ... what random.sample drew, one entry per selection made
    fl_call,     \* flatten_references: arguments of the last direct call
    fl_status,   \* ... "idle", "ok" or the exception raised
    fl_result,   \* ... flat_examples, when it returned
    fl_warned,   \* ... per exemplar handled: whether logger.warning was called
    fl_draws,    \* ... what random.sample drew, per exemplar handled
    run_call,    \* run_inference: the prompt settings (args) of both runs
    run_batches, \* ... the batches iter_batches yields, in both runs
    run_seed,    \* ... args.seed of each run
    run_pc,      \* ... where each run is: "start", "seeded", "failed", "done"
    run_rng,     \* ... the state of each run's process-wide generator
    run_prompts, \* ... the prompts of each run, batch by batch
    run_draws,   \* ... what each run's selections drew, batch by batch
    run_log      \* ... each run's calls of random.sample, as <<n, k>>

po_vars == <<po_call, po_status, po_result, po_trace>>
sel_vars == <<examples, few_shot_n, n_refs>>
se_vars == <<se_status, se_result, se_draw>>
pr_vars == <<pr_call, pr_status, pr_result, pr_draws>>
fl_vars == <<fl_call, fl_status, fl_result, fl_warned, fl_draws>>
run_vars == <<run_call, run_batches, run_seed, run_pc, run_rng, run_prompts,
              run_draws, run_log>>
vars == <<po_vars, sel_vars, se_vars, pr_vars, fl_vars, run_vars>>

----------------------------------------------------------------------------
(* Python str / re primitives                                              *)

\* str.strip() and the regex class \s: the whitespace characters
Whitespace == {" ", "\n", "\t"}

\* the regex class \d
Digits == {"0", "1", "2", "3", "4", "5", "6", "7", "8", "9"}

\* s[i:] of Python, i counted from 1
Drop(s, i) == SubSeq(s, i, Len(s))

\* s.startswith(p)
StartsWith(s, p) == Len(p) <= Len(s) /\ SubSeq(s, 1, Len(p)) = p

\* "".join(parts)
RECURSIVE Concat(_)
Concat(parts) ==
    IF parts = <<>> THEN <<>> ELSE Head(parts) \o Concat(Tail(parts))

\* sep.join(parts)
RECURSIVE Join(_, _)
Join(sep, parts) ==
    IF parts = <<>> THEN <<>>
    ELSE IF Len(parts) = 1 THEN Head(parts)
    ELSE Head(parts) \o sep \o Join(sep, Tail(parts))

\* s.find(sub), counted from 1; 0 when sub does not occur
Find(s, sub) ==
    LET hits == {i \in 1..(Len(s) - Len(sub) + 1) : StartsWith(Drop(s, i), sub)}
    IN  IF hits = {} THEN 0 ELSE CHOOSE i \in hits : \A j \in hits : i <= j

\* s.replace(old, new): every non-overlapping occurrence, left to right;
\* an empty old matches before every character and at the end
RECURSIVE StrReplace(_, _, _)
StrReplace(s, old, new) ==
    IF old = <<>>
    THEN IF s = <<>> THEN new
         ELSE new \o <<Head(s)>> \o StrReplace(Tail(s), old, new)
    ELSE IF Len(s) < Len(old) THEN s
    ELSE IF StartsWith(s, old)
         THEN new \o StrReplace(Drop(s, Len(old) + 1), old, new)
         ELSE <<Head(s)>> \o StrReplace(Tail(s), old, new)

\* s.lstrip()
RECURSIVE LStrip(_)
LStrip(s) ==
    IF s # <<>> /\ Head(s) \in Whitespace THEN LStrip(Tail(s)) ELSE s

\* s.rstrip()
RECURSIVE RStrip(_)
RStrip(s) ==
    IF s # <<>> /\ s[Len(s)] \in Whitespace
    THEN RStrip(SubSeq(s, 1, Len(s) - 1)) ELSE s

\* s.strip()
StrStrip(s) == RStrip(LStrip(s))

\* s.split(sep) for a non-empty sep: the list of segments
RECURSIVE StrSplit(_, _)
StrSplit(s, sep) ==
    LET i == Find(s, sep)
    IN  IF i = 0 THEN <<s>>
        ELSE <<SubSeq(s, 1, i - 1)>> \o StrSplit(Drop(s, i + Len(sep)), sep)

\* line 191 without the substitution: split_out_seq[0] as it is
SubNewlinesSkipped(s) == s

\* re.sub(r'\n', ' ', s)
SubNewlines(s) == [i \in 1..Len(s) |-> IF s[i] = "\n" THEN " " ELSE s[i]]

\* re.split(r'\d:', s): split at every digit followed by a colon
RECURSIVE SplitDigitColon(_)
SplitDigitColon(s) ==
    LET hits == {i \in 1..(Len(s) - 1) : s[i] \in Digits /\ s[i + 1] = ":"}
    IN  IF hits = {} THEN <<s>>
        ELSE LET i == CHOOSE h \in hits : \A j \in hits : h <= j
             IN  <<SubSeq(s, 1, i - 1)>> \o SplitDigitColon(Drop(s, i + 2))

\* length of the match of \s+<label>\s+ that starts at s[1], 0 when there is
\* none: both \s+ are greedy, and the label starts with a non-space character,
\* so each takes its whole run of whitespace
LabelMatchLen(s, label) ==
    LET lead == Len(s) - Len(LStrip(s))
        rest == LStrip(s)
        tail == Drop(rest, Len(label) + 1)
        trail == Len(tail) - Len(LStrip(tail))
    IN  IF lead >= 1 /\ StartsWith(rest, label) /\ trail >= 1
        THEN lead + Len(label) + trail ELSE 0

\* re.sub(r'\s+<label>\s+', '', s): leftmost matches, non-overlapping
RECURSIVE SubLabel(_, _)
SubLabel(s, label) ==
    IF s = <<>> THEN <<>>
    ELSE LET n == LabelMatchLen(s, label)
         IN  IF n > 0 THEN SubLabel(Drop(s, n + 1), label)
             ELSE <<Head(s)>> \o SubLabel(Tail(s), label)

\* the labels of lines 198 and 199
SimpleLabel == <<"S", "i", "m", "p", "l", "e", ":">>
ComplexLabel == <<"C", "o", "m", "p", "l", "e", "x", ":">>

----------------------------------------------------------------------------
(* RandomExampleSelector, lines 25-85                                      *)
(*                                                                         *)
(* An exemplar is a dict: a function from field names to values.  A source *)
(* value is a str.  A pool target is [list |-> FALSE, text |-> str] or     *)
(* [list |-> TRUE, refs |-> list of str] (the isinstance test of line 72); *)
(* the target of a flattened exemplar is a str.                            *)

\* the sequences random.sample(population, k) can return: k distinct
\* positions of the population, in any order
Arrangements(n, k) ==
    {f \in [1..k -> 1..n] : \A a, b \in 1..k : f[a] = f[b] => a = b}

\* random.sample raises ValueError when k > len(population) or k < 0
SampleFails(n, k) == k > n \/ k < 0

\* the smaller of two numbers
Min(a, b) == IF a <= b THEN a ELSE b

\* str(i) for the indexes of line 76
IndexStr(i) == <<<<"0", "1", "2", "3", "4", "5", "6", "7", "8", "9">>[i + 1]>>

\* a sampler with replacement (random.choices): positions may repeat
PoolDrawsWithRepeats(n, k) == [1..k -> 1..n]

\* line 43: what random.sample(self.examples, self.few_shot_n) can return,
\* as positions of a pool of n exemplars
PoolDraws(n, k) == Arrangements(n, k)

\* line 73 with a sampler that may repeat positions (random.choices)
RefDrawsOfWithRepeats(ex, tgt_key, nrefs) ==
    IF tgt_key \in DOMAIN ex /\ ex[tgt_key].list
    THEN [1..Min(nrefs, Len(ex[tgt_key].refs)) -> 1..Len(ex[tgt_key].refs)]
    ELSE {<<>>}

\* what line 73 can draw for one exemplar: positions of its references
\* (nothing is drawn for a str target)
RefDrawsOf(ex, tgt_key, nrefs) ==
    IF tgt_key \in DOMAIN ex /\ ex[tgt_key].list
    THEN Arrangements(Len(ex[tgt_key].refs), Min(nrefs, Len(ex[tgt_key].refs)))
    ELSE {<<>>}

\* lines 69-83 with the test of line 75 dropped: references always indexed
FlattenOneAlwaysIndexed(ex, src_key, tgt_key, nrefs, draw) ==
    IF src_key \notin DOMAIN ex \/ tgt_key \notin DOMAIN ex
    THEN [status |-> "KeyError", warned |-> FALSE]
    ELSE IF ex[tgt_key].list
    THEN [status |-> "ok",
          warned |-> Len(draw) < nrefs,
          flat_ex |-> (src_key :> ex[src_key]) @@
                      (tgt_key :> Join(<<" ">>,
                          [r \in 1..Len(draw) |->
                              IndexStr(r - 1) \o <<":", " ">>
                                  \o ex[tgt_key].refs[draw[r]]]))]
    ELSE [status |-> "ok",
          warned |-> nrefs > 1,
          flat_ex |-> (src_key :> ex[src_key]) @@ (tgt_key :> ex[tgt_key].text)]

\* lines 69-83 for one exemplar, given the draw of line 73
FlattenOne(ex, src_key, tgt_key, nrefs, draw) ==
    IF src_key \notin DOMAIN ex \/ tgt_key \notin DOMAIN ex
    THEN [status |-> "KeyError", warned |-> FALSE]
    ELSE IF ex[tgt_key].list
    THEN LET simple_references == [r \in 1..Len(draw) |-> ex[tgt_key].refs[draw[r]]]
             enumerated == [r \in 1..Len(draw) |->
                               IndexStr(r - 1) \o <<":", " ">> \o simple_references[r]]
         IN  [status |-> "ok",
              warned |-> nrefs > 1 /\ Len(draw) < nrefs,
              flat_ex |-> (src_key :> ex[src_key]) @@
                          (tgt_key :> Join(<<" ">>, IF nrefs > 1 THEN enumerated
                                                   ELSE simple_references))]
    ELSE [status |-> "ok",
          warned |-> nrefs > 1,
          flat_ex |-> (src_key :> ex[src_key]) @@ (tgt_key :> ex[tgt_key].text)]

\* flatten_references, lines 47-85: draws[e] is the draw for exemplar e
flatten_references(exs, src_key, tgt_key, nrefs, draws) ==
    LET one == [e \in 1..Len(exs) |->
                   FlattenOne(exs[e], src_key, tgt_key, nrefs, draws[e])]
        bad == {e \in 1..Len(exs) : one[e].status # "ok"}
    IN  IF bad # {}
        THEN [status |-> one[CHOOSE e \in bad : \A b \in bad : e <= b].status,
              flat_examples |-> <<>>]
        ELSE [status |-> "ok",
              flat_examples |-> [e \in 1..Len(exs) |-> one[e].flat_ex]]

\* the exemplars flatten_references handles before it returns or raises:
\* all of them, or those up to the first whose field is missing
FlattenHandled(exs, src_key, tgt_key) ==
    LET bad == {e \in 1..Len(exs) :
                   src_key \notin DOMAIN exs[e] \/ tgt_key \notin DOMAIN exs[e]}
    IN  IF bad = {} THEN Len(exs)
        ELSE (CHOOSE e \in bad : \A b \in bad : e <= b) - 1

\* the calls of logger.warning (lines 78 and 82), per exemplar handled
FlattenWarnings(exs, src_key, tgt_key, nrefs, draws) ==
    [e \in 1..FlattenHandled(exs, src_key, tgt_key) |->
        FlattenOne(exs[e], src_key, tgt_key, nrefs, draws[e]).warned]

\* what one call of flatten_references can draw, exemplar by exemplar
FlattenDraws(exs, tgt_key, nrefs) ==
    {d \in [1..Len(exs) -> UNION {RefDrawsOf(exs[e], tgt_key, nrefs)
                                    : e \in 1..Len(exs)}] :
        \A e \in 1..Len(exs) : d[e] \in RefDrawsOf(exs[e], tgt_key, nrefs)}

\* the draw recorded when nothing is sampled
NoDraw == [idx |-> <<>>, refs |-> <<>>]

\* what one call of select_examples can draw: the pool positions of line 43,
\* then the reference positions of line 73 for each sampled exemplar
SelectionDraws(pool, k, nrefs) ==
    UNION {{[idx |-> idx, refs |-> refs] :
               refs \in {r \in [1..k -> UNION {RefDrawsOf(pool[i], "simple", nrefs)
                                                : i \in 1..Len(pool)}] :
                            \A e \in 1..k :
                                r[e] \in RefDrawsOf(pool[idx[e]], "simple", nrefs)}} :
              idx \in PoolDraws(Len(pool), k)}

\* add_example that puts the new exemplar first
add_example_at_front(pool, example) == <<example>> \o pool

\* add_example, lines 37-39: self.examples.append(example)
add_example(pool, example) == Append(pool, example)

\* select_examples with the sampling error swallowed
select_examples_no_raise(pool, k, nrefs, draw) ==
    IF SampleFails(Len(pool), k)
    THEN [status |-> "ok", flat_examples |-> <<>>]
    ELSE flatten_references([e \in 1..k |-> pool[draw.idx[e]]],
                            "complex", "simple", nrefs, draw.refs)

\* select_examples, lines 41-44
select_examples(pool, k, nrefs, draw) ==
    IF SampleFails(Len(pool), k)
    THEN [status |-> "ValueError", flat_examples |-> <<>>]
    ELSE flatten_references([e \in 1..k |-> pool[draw.idx[e]]],
                            "complex", "simple", nrefs, draw.refs)

----------------------------------------------------------------------------
(* Templates.  A template is a sequence whose items are characters or the  *)
(* placeholders "{complex}", "{simple}", "{input}"; the text of exemplars  *)
(* and inputs holds characters only.                                       *)

Placeholders == {"{complex}", "{simple}", "{input}"}

\* the variable a placeholder names
VariableOf(item) ==
    CASE item = "{complex}" -> "complex"
      [] item = "{simple}" -> "simple"
      [] item = "{input}" -> "input"

\* template.format(**values): every placeholder replaced by its value;
\* a placeholder without a value raises KeyError (TemplateFails)
TemplateFails(template, values) ==
    \E n \in 1..Len(template) :
        template[n] \in Placeholders /\ VariableOf(template[n]) \notin DOMAIN values

TemplateFormat(template, values) ==
    Concat([n \in 1..Len(template) |->
               IF template[n] \in Placeholders
               THEN values[VariableOf(template[n])]
               ELSE <<template[n]>>])

\* construct_example_template, lines 87-93: the PromptTemplate of the examples
construct_example_template(template, source_field, target_field) ==
    [template |-> template, input_variables |-> <<source_field, target_field>>]

\* FewShotPromptTemplate(...): the library refuses to build a template that
\* has both a non-empty example list and a selector, or neither
FewShotRejects(passed_examples, has_selector) ==
    \/ (~passed_examples.none /\ passed_examples.list # <<>> /\ has_selector)
    \/ (passed_examples.none /\ ~has_selector)

\* FewShotPromptTemplate.format(input=i), given the examples it got: the
\* non-empty pieces among prefix, rendered examples and suffix, joined by
\* the separator, then formatted with the input
FewShotFormat(prefix, example_strings, suffix, separator, input) ==
    LET pieces == <<prefix>> \o example_strings \o <<suffix>>
        NonEmpty(piece) == piece # <<>>
    IN  TemplateFormat(Join(separator, SelectSeq(pieces, NonEmpty)),
                       [input |-> input])

----------------------------------------------------------------------------
(* prepare_prompted_inputs, lines 95-156                                   *)

\* an Optional[List[Dict]] argument
None == [none |-> TRUE, list |-> <<>>]
Some(list) == [none |-> FALSE, list |-> list]


Layouts == {"prefix_initial", "prefix_every"}

\* line 130 / 141: the examples argument handed to FewShotPromptTemplate
PassedExamples(call) ==
    IF ~call.has_selector THEN None ELSE call.examples

\* lines 136 and 147: the separator handed to FewShotPromptTemplate
PassedSeparator(call) ==
    IF call.prompt_format = "prefix_every"
    THEN call.example_separator \o call.prefix \o call.example_separator
    ELSE call.example_separator

\* line 153 without the replacement
HeadNotCollapsed(fsp, prefix, example_separator) == StrStrip(fsp)

\* line 153: the duplicated head is replaced, and the prompt trimmed
HeadCollapsed(fsp, prefix, example_separator) ==
    StrStrip(StrReplace(fsp, prefix \o example_separator \o prefix, prefix))

\* whether few_shot_prompt.format asks the selector for examples
Samples(call) ==
    /\ call.prompt_format \in Layouts
    /\ ~FewShotRejects(PassedExamples(call), call.has_selector)
    /\ PassedExamples(call).none

\* one pass of the loop body, lines 128-154, for input i and the draw the
\* selector makes if it is asked
PrepareOne(i, call, pool, k, nrefs, draw) ==
    IF call.prompt_format \notin Layouts
    THEN [status |-> "UnboundLocalError"]
    ELSE IF FewShotRejects(PassedExamples(call), call.has_selector)
    THEN [status |-> "ValueError"]
    ELSE
    LET got == IF ~PassedExamples(call).none
               THEN [status |-> "ok", flat_examples |-> PassedExamples(call).list]
               ELSE select_examples(pool, k, nrefs, draw)
    IN  IF got.status # "ok" THEN [status |-> got.status]
        ELSE IF \E e \in 1..Len(got.flat_examples) :
                    TemplateFails(call.example_prompt.template, got.flat_examples[e])
        THEN [status |-> "KeyError"]
        ELSE
        LET example_strings ==
                [e \in 1..Len(got.flat_examples) |->
                    TemplateFormat(call.example_prompt.template,
                                   got.flat_examples[e])]
            fsp == FewShotFormat(call.prefix, example_strings, call.suffix,
                                 PassedSeparator(call), i)
        IN  [status |-> "ok",
             fsp |-> HeadCollapsed(fsp, call.prefix, call.example_separator)]

\* the loop with one selection made before it and shared by all the inputs
PrepareLoopSharedSample(call, pool, k, nrefs, draws) ==
    LET one == [n \in 1..Len(call.inputs) |->
                   PrepareOne(call.inputs[n], call, pool, k, nrefs, draws[1])]
        bad == {n \in 1..Len(call.inputs) : one[n].status # "ok"}
        stop == IF bad = {} THEN Len(call.inputs) + 1
                ELSE CHOOSE n \in bad : \A b \in bad : n <= b
        sampled == Samples(call) /\ ~SampleFails(Len(pool), k)
    IN  [status |-> IF bad = {} THEN "ok" ELSE one[stop].status,
         prompted_inputs |-> [n \in 1..(stop - 1) |-> one[n].fsp],
         draws |-> IF sampled THEN SubSeq(draws, 1, Min(1, Len(call.inputs)))
                   ELSE <<>>]

\* the loop, lines 124-156: the status it ends with, prompted_inputs (as
\* returned, or as built before the exception), and the draws made
PrepareLoop(call, pool, k, nrefs, draws) ==
    LET one == [n \in 1..Len(call.inputs) |->
                   PrepareOne(call.inputs[n], call, pool, k, nrefs, draws[n])]
        bad == {n \in 1..Len(call.inputs) : one[n].status # "ok"}
        stop == IF bad = {} THEN Len(call.inputs) + 1
                ELSE CHOOSE n \in bad : \A b \in bad : n <= b
        sampled == Samples(call) /\ ~SampleFails(Len(pool), k)
    IN  [status |-> IF bad = {} THEN "ok" ELSE one[stop].status,
         prompted_inputs |-> [n \in 1..(stop - 1) |-> one[n].fsp],
         draws |-> IF sampled
                   THEN SubSeq(draws, 1, Min(stop, Len(call.inputs)))
                   ELSE <<>>]

\* the call without the test of lines 121-122
prepare_without_source_test(call, pool, k, nrefs, draws) ==
    PrepareLoop(call, pool, k, nrefs, draws)

\* the whole call, lines 121-156
prepare_prompted_inputs(call, pool, k, nrefs, draws) ==
    IF call.examples.none /\ ~call.has_selector
    THEN [status |-> "RuntimeError", prompted_inputs |-> <<>>, draws |-> <<>>]
    ELSE PrepareLoop(call, pool, k, nrefs, draws)

\* the draws a call can make, one per input
DrawChoices(call, pool, k, nrefs) ==
    IF Samples(call) /\ ~SampleFails(Len(pool), k)
    THEN [1..Len(call.inputs) -> SelectionDraws(pool, k, nrefs)]
    ELSE {[n \in 1..Len(call.inputs) |-> NoDraw]}

----------------------------------------------------------------------------
(* postprocess_model_outputs, lines 158-202                                *)

\* s.replace(old, '', 1): only the first occurrence is removed
RemoveFirst(s, old) ==
    LET i == Find(s, old)
    IN  IF old = <<>> \/ i = 0 THEN s
        ELSE SubSeq(s, 1, i - 1) \o Drop(s, i + Len(old))

\* line 179 with a count of 1 passed to str.replace
EchoRemovedFirstOnly(out_seq, prompt) == StrStrip(RemoveFirst(out_seq, prompt))

\* step 1, line 179
EchoRemoved(out_seq, prompt) == StrStrip(StrReplace(out_seq, prompt, <<>>))

\* line 182 with out_seq.rsplit(example_separator, 1): cut at the last
\* occurrence
SplitOutSeqAtLast(out_seq, example_separator) ==
    LET hits == {i \in 1..(Len(out_seq) - Len(example_separator) + 1) :
                    StartsWith(Drop(out_seq, i), example_separator)}
    IN  IF hits = {} THEN <<out_seq>>
        ELSE LET i == CHOOSE h \in hits : \A j \in hits : j <= h
             IN  <<SubSeq(out_seq, 1, i - 1),
                   Drop(out_seq, i + Len(example_separator))>>

\* step 2, line 182; str.split raises ValueError on an empty separator
SplitOutSeq(out_seq, example_separator) == StrSplit(out_seq, example_separator)

\* step 4, line 195: the non-empty stripped segments of the split
RECURSIVE NonEmptyStripped(_)
NonEmptyStripped(parts) ==
    IF parts = <<>> THEN <<>>
    ELSE IF StrStrip(Head(parts)) # <<>>
         THEN <<StrStrip(Head(parts))>> \o NonEmptyStripped(Tail(parts))
         ELSE NonEmptyStripped(Tail(parts))

\* step 5, lines 198-199
LabelsRemoved(out_seq) == SubLabel(SubLabel(out_seq, SimpleLabel), ComplexLabel)

\* the body of the inner loop, lines 175-201, for one candidate: the value
\* appended to trimmed_outputs[i], or the exception raised, and out_seq
\* after each step
PostprocessSeq(out_seq, prompt, example_separator) ==
    LET echo == EchoRemoved(out_seq, prompt)
    IN  IF example_separator = <<>>
        THEN [status |-> "ValueError", echo |-> echo]
        ELSE
        LET split_out_seq == SplitOutSeq(echo, example_separator)
            nonl == SubNewlines(split_out_seq[1])
            refs == NonEmptyStripped(SplitDigitColon(nonl))
        IN  IF refs = <<>>
            THEN [status |-> "IndexError", echo |-> echo,
                  nsplit |-> Len(split_out_seq), segment |-> split_out_seq[1],
                  nonl |-> nonl]
            ELSE [status |-> "ok", echo |-> echo,
                  nsplit |-> Len(split_out_seq), segment |-> split_out_seq[1],
                  nonl |-> nonl, ref |-> refs[1],
                  value |-> StrStrip(LabelsRemoved(refs[1]))]

\* lines 172-202: every candidate of every prompt, in order
PostprocessTrace(inputs, outputs, example_separator) ==
    [i \in 1..Len(outputs) |->
        [j \in 1..Len(outputs[i]) |->
            PostprocessSeq(outputs[i][j], inputs[i], example_separator)]]

\* the exception of the first candidate that raises one, "ok" when none does
PostprocessStatus(trace) ==
    LET all == UNION {{<<i, j>> : j \in 1..Len(trace[i])} : i \in 1..Len(trace)}
        bad == {p \in all : trace[p[1]][p[2]].status # "ok"}
    IN  IF bad = {} THEN "ok"
        ELSE LET f == CHOOSE p \in bad : \A q \in bad :
                        p[1] < q[1] \/ (p[1] = q[1] /\ p[2] <= q[2])
             IN  trace[f[1]][f[2]].status

\* trimmed_outputs, lines 172 and 201, when no candidate raised
TrimmedOutputs(trace) ==
    [i \in 1..Len(trace) |-> [j \in 1..Len(trace[i]) |-> trace[i][j].value]]

\* the value returned, line 202
postprocess_model_outputs(inputs, outputs, example_separator) ==
    TrimmedOutputs(PostprocessTrace(inputs, outputs, example_separator))

----------------------------------------------------------------------------
(* Inputs of postprocess_model_outputs                                     *)

\* number of pieces a generated candidate is made of
MaxParts == 3
\* number of prompts, and of candidates in all, of a generated batch
MaxPrompts == 2
MaxBatchCands == 2

\* all sequences over S of length at most n
SeqsUpTo(S, n) == UNION {[1..k -> S] : k \in 0..n}

\* example separators: "\n\n", one that is not whitespace, and the empty one
Separators == {<<"\n", "\n">>, <<"#", "#">>, <<>>}

\* rendered prompts of a single-candidate call
Prompts == {<<"P", "1">>, <<>>}

\* what a generated candidate is made of
Pieces(prompt, sep) ==
    {prompt, sep, <<" ">>, <<"\n">>, <<"a">>, SimpleLabel, ComplexLabel,
     <<"0", ":">>}

\* the candidates of the spec's examples, and two with labels and indexes
\* deeper in the text
ExampleCandidates ==
    { \* "P1 Simple: Hello world.\n\nComplex: next"
      <<"P", "1", " ">> \o SimpleLabel
          \o <<" ", "H", "e", "l", "l", "o", " ", "w", "o", "r", "l", "d", ".">>
          \o <<"\n", "\n">> \o ComplexLabel \o <<" ", "n", "e", "x", "t">>,
      \* "0: First option. 1: Second option."
      <<"0", ":", " ", "F", "i", "r", "s", "t", ".", " ",
        "1", ":", " ", "S", "e", "c", "o", "n", "d", ".">>,
      \* "a Simple: b Complex: c"
      <<"a", " ">> \o SimpleLabel \o <<" ", "b", " ">> \o ComplexLabel
          \o <<" ", "c">>,
      \* "P1aP1bP1"
      <<"P", "1", "a", "P", "1", "b", "P", "1">> }

Candidates(prompt, sep) ==
    {Concat(ps) : ps \in SeqsUpTo(Pieces(prompt, sep), MaxParts)}
        \cup ExampleCandidates

\* the prompt of row i of a generated batch: "P1", "P2", ...
PromptAt(i) == <<"P", <<"1", "2", "3", "4", "5", "6", "7", "8", "9">>[i]>>

\* the candidates of a generated batch, by kind
CandKinds == {"empty", "blank", "prompt", "sepfirst", "plain"}
CandOf(kind, prompt, sep) ==
    CASE kind = "empty" -> <<>>
      [] kind = "blank" -> <<" ", "\n">>
      [] kind = "prompt" -> prompt
      [] kind = "sepfirst" -> sep \o <<"a">>
      [] OTHER -> prompt \o <<" ", "a">> \o sep \o <<"b">>

\* sum of a sequence of numbers
RECURSIVE Sum(_)
Sum(ns) == IF ns = <<>> THEN 0 ELSE Head(ns) + Sum(Tail(ns))

\* the ways to cut n candidates into at most MaxPrompts rows
RowLengths(n) ==
    {lens \in SeqsUpTo(0..n, MaxPrompts) : Sum(lens) = n}

\* flat cut into rows of the lengths lens
Rows(flat, lens) ==
    [i \in 1..Len(lens) |->
        LET start == Sum(SubSeq(lens, 1, i - 1))
        IN  SubSeq(flat, start + 1, start + lens[i])]

----------------------------------------------------------------------------
(* The postprocessor as a state machine                                    *)

SelectIdle == se_status = "idle" /\ se_result = <<>> /\ se_draw = NoDraw

PrepareIdle ==
    /\ pr_call = [inputs |-> <<>>]
    /\ pr_status = "idle"
    /\ pr_result = <<>>
    /\ pr_draws = <<>>

\* no run was started: the generators hold what the system seeded them with
RunIdle ==
    /\ run_call = [inputs |-> <<>>]
    /\ run_batches = <<>>
    /\ run_seed = <<0, 0>>
    /\ run_pc = <<"start", "start">>
    /\ run_rng = <<0, 0>>
    /\ run_prompts = <<<<>>, <<>>>>
    /\ run_draws = <<<<>>, <<>>>>
    /\ run_log = <<<<>>, <<>>>>

FlattenIdle ==
    /\ fl_call = [exs |-> <<>>, src_key |-> "complex", tgt_key |-> "simple",
                  n_refs |-> 1]
    /\ fl_status = "idle"
    /\ fl_result = <<>>
    /\ fl_warned = <<>>
    /\ fl_draws = <<>>

PostIdle ==
    /\ po_call = [inputs |-> <<>>, outputs |-> <<>>, separator |-> <<>>]
    /\ po_status = "idle"
    /\ po_result = <<>>
    /\ po_trace = <<>>

\* one call of postprocess_model_outputs(inputs, outputs, example_separator);
\* the function keeps no state between calls, so one call is modelled
Postprocess(inputs, outputs, example_separator) ==
    LET trace == PostprocessTrace(inputs, outputs, example_separator)
        status == PostprocessStatus(trace)
    IN  /\ po_call' = [inputs |-> inputs, outputs |-> outputs,
                       separator |-> example_separator]
        /\ po_trace' = trace
        /\ po_status' = status
        /\ po_result' = IF status = "ok" THEN TrimmedOutputs(trace) ELSE <<>>
        /\ UNCHANGED <<sel_vars, se_vars, pr_vars, fl_vars, run_vars>>

\* the API driver's call: one prompt, one candidate
PostprocessOne ==
    /\ po_status = "idle"
    /\ \E prompt \in Prompts, sep \in Separators :
           \E cand \in Candidates(prompt, sep) :
               Postprocess(<<prompt>>, <<<<cand>>>>, sep)

\* the local driver's call: a batch of prompts, several candidates each
PostprocessBatch ==
    /\ po_status = "idle"
    /\ \E sep \in Separators, kinds \in SeqsUpTo(CandKinds, MaxBatchCands) :
           \E lens \in RowLengths(Len(kinds)) :
               LET inputs == [i \in 1..Len(lens) |-> PromptAt(i)]
                   rows == Rows(kinds, lens)
                   outputs == [i \in 1..Len(lens) |->
                                  [j \in 1..Len(rows[i]) |->
                                      CandOf(rows[i][j], inputs[i], sep)]]
               IN  Postprocess(inputs, outputs, sep)

PostNext == PostprocessOne \/ PostprocessBatch

PostInit ==
    /\ PostIdle
    /\ examples = <<>> /\ few_shot_n = 1 /\ n_refs = 1
    /\ SelectIdle
    /\ PrepareIdle
    /\ FlattenIdle
    /\ RunIdle

SpecPost == PostInit /\ [][PostNext]_vars

----------------------------------------------------------------------------
(* The exemplar selector as a state machine                                *)

\* size of the pool, and of the n_refs setting
MaxPool == 3
MaxNRefs == 2

\* a pool exemplar with a str target, and one with a list of references
Text(s) == [list |-> FALSE, text |-> s, refs |-> <<>>]
Refs(l) == [list |-> TRUE, text |-> <<>>, refs |-> l]
Exemplar(src, tgt) == [complex |-> src, simple |-> tgt]

\* a pool exemplar whose fields carry other names than the defaults
\* (--source_field source --target_field target)
ExemplarNamed(src, tgt) == [source |-> src, target |-> tgt]

ExemplarSet ==
    {Exemplar(<<"E">>, Text(<<>>)),
     Exemplar(<<"P">>, Text(<<>>)),
     Exemplar(<<"F">>, Refs(<<<<"u">>, <<"v">>>>)),
     ExemplarNamed(<<"E">>, Text(<<>>))}

\* RandomExampleSelector(examples, few_shot_n, n_refs), lines 27-35
SelInit ==
    /\ examples \in SeqsUpTo(ExemplarSet, 1)
    /\ few_shot_n \in 0..(MaxPool + 1)
    /\ n_refs \in 1..MaxNRefs
    /\ SelectIdle
    /\ PrepareIdle
    /\ PostIdle
    /\ FlattenIdle
    /\ RunIdle

\* add_example(example), lines 37-39; the caller may still hold what an
\* earlier call of flatten_references returned
AddExample ==
    /\ se_status = "idle"
    /\ Len(examples) < MaxPool
    /\ \E example \in ExemplarSet : examples' = add_example(examples, example)
    /\ UNCHANGED <<few_shot_n, n_refs, se_vars, pr_vars, po_vars, fl_vars, run_vars>>

\* select_examples(input_variables), lines 41-44
SelectExamples ==
    /\ se_status = "idle" /\ fl_status = "idle"
    /\ \E draw \in IF SampleFails(Len(examples), few_shot_n) THEN {NoDraw}
                    ELSE SelectionDraws(examples, few_shot_n, n_refs) :
           LET got == select_examples(examples, few_shot_n, n_refs, draw)
           IN  /\ se_status' = got.status
               /\ se_result' = got.flat_examples
               /\ se_draw' = draw
    /\ UNCHANGED <<sel_vars, pr_vars, po_vars, fl_vars, run_vars>>

\* the caller is done with the exemplars it got
SelectReturn ==
    /\ se_status # "idle"
    /\ se_status' = "idle" /\ se_result' = <<>> /\ se_draw' = NoDraw
    /\ UNCHANGED <<sel_vars, pr_vars, po_vars, fl_vars, run_vars>>

\* flatten_references(self.examples, n_refs=self.n_refs) called on the pool
FlattenPool ==
    /\ se_status = "idle" /\ fl_status = "idle"
    /\ \E draws \in FlattenDraws(examples, "simple", n_refs) :
           LET out == flatten_references(examples, "complex", "simple", n_refs,
                                         draws)
               handled == FlattenHandled(examples, "complex", "simple")
           IN  /\ fl_call' = [exs |-> examples, src_key |-> "complex",
                              tgt_key |-> "simple", n_refs |-> n_refs]
               /\ fl_status' = out.status
               /\ fl_result' = out.flat_examples
               /\ fl_warned' = FlattenWarnings(examples, "complex", "simple",
                                               n_refs, draws)
               /\ fl_draws' = SubSeq(draws, 1, handled)
    /\ UNCHANGED <<sel_vars, se_vars, pr_vars, po_vars, run_vars>>

\* the caller is done with the flattened exemplars it got
FlattenReturn ==
    /\ fl_status # "idle"
    /\ fl_call' = [exs |-> <<>>, src_key |-> "complex", tgt_key |-> "simple",
                   n_refs |-> 1]
    /\ fl_status' = "idle"
    /\ fl_result' = <<>>
    /\ fl_warned' = <<>>
    /\ fl_draws' = <<>>
    /\ UNCHANGED <<sel_vars, se_vars, pr_vars, po_vars, run_vars>>

SelNext ==
    AddExample \/ SelectExamples \/ SelectReturn \/ FlattenPool \/ FlattenReturn

SpecSel == SelInit /\ [][SelNext]_vars

----------------------------------------------------------------------------
(* flatten_references called directly (it is a staticmethod)               *)

\* number of exemplars of a direct call
MaxFlatExs == 2

\* ten references, as ASSET provides
TenRefs ==
    <<<<"a">>, <<"b">>, <<"c">>, <<"d">>, <<"e">>,
      <<"f">>, <<"g">>, <<"h">>, <<"i">>, <<"j">>>>

\* exemplars of calls with several exemplars
SmallExemplars ==
    {Exemplar(<<"E">>, Text(<<"t">>)),
     Exemplar(<<"F">>, Refs(<<<<"u">>, <<"v">>>>)),
     Exemplar(<<"G">>, Refs(<<>>)),
     ExemplarNamed(<<"H">>, Refs(<<<<"u">>, <<"v">>>>))}

\* exemplars of calls with one exemplar
SingleExemplars ==
    SmallExemplars \cup {Exemplar(<<"T">>, Refs(TenRefs)),
                         Exemplar(<<"U">>, Refs(<<<<"u", " ">>>>))}

\* the n_refs of a direct call: up to one more than the selector's, and 5
FlattenNRefs == 1..(MaxNRefs + 1) \cup {5}

\* the field names of a direct call: the defaults, or the records' own
FieldNames == {<<"complex", "simple">>, <<"source", "target">>}

FlattenCalls ==
    [exs : {<<ex>> : ex \in SingleExemplars}
               \cup SeqsUpTo(SmallExemplars, MaxFlatExs),
     src_key : {"complex", "source"},
     tgt_key : {"simple", "target"},
     n_refs : FlattenNRefs]

\* one call of flatten_references(exs, src_key, tgt_key, n_refs)
FlattenReferences ==
    /\ fl_status = "idle"
    /\ \E call \in FlattenCalls :
           /\ <<call.src_key, call.tgt_key>> \in FieldNames
           /\ \E draws \in FlattenDraws(call.exs, call.tgt_key, call.n_refs) :
                  LET out == flatten_references(call.exs, call.src_key,
                                                call.tgt_key, call.n_refs, draws)
                      handled == FlattenHandled(call.exs, call.src_key,
                                                call.tgt_key)
                  IN  /\ fl_call' = call
                      /\ fl_status' = out.status
                      /\ fl_result' = out.flat_examples
                      /\ fl_warned' = FlattenWarnings(call.exs, call.src_key,
                                                      call.tgt_key, call.n_refs,
                                                      draws)
                      /\ fl_draws' = SubSeq(draws, 1, handled)
    /\ UNCHANGED <<sel_vars, se_vars, pr_vars, po_vars, run_vars>>

FlatNext == FlattenReferences

FlatInit ==
    /\ FlattenIdle
    /\ RunIdle
    /\ examples = <<>> /\ few_shot_n = 1 /\ n_refs = 1
    /\ SelectIdle
    /\ PrepareIdle
    /\ PostIdle

SpecFlat == FlatInit /\ [][FlatNext]_vars

----------------------------------------------------------------------------
(* The prompt assembler as a state machine                                 *)

\* number of inputs of a batch
MaxInputs == 2

InputTexts == {<<"X">>, <<"P">>}
Prefixes == {<<"P">>, <<>>}
Suffix == <<"S", ":", "{input}">>
ExampleTemplate == <<"{complex}", "{simple}">>
PromptFormats == Layouts \cup {"prefix_last"}

\* materialized example lists: absent, empty, one flat exemplar
ExampleLists == {None, Some(<<>>), Some(<<[complex |-> <<"E">>, simple |-> <<>>]>>)}

\* the pools of the selector handed to prepare_prompted_inputs
PreparePools ==
    {<<Exemplar(<<"E">>, Text(<<>>))>>,
     <<Exemplar(<<"P">>, Text(<<>>)), Exemplar(<<"F">>, Refs(<<<<"u">>, <<"v">>>>))>>}

PrepareCalls ==
    [inputs : SeqsUpTo(InputTexts, MaxInputs),
     examples : ExampleLists,
     has_selector : BOOLEAN,
     prefix : Prefixes,
     suffix : {Suffix},
     example_prompt : {construct_example_template(ExampleTemplate,
                                                  "complex", "simple")},
     example_separator : {<<"\n", "\n">>, <<"#">>},
     prompt_format : PromptFormats]

PrepInit ==
    /\ examples \in PreparePools
    /\ few_shot_n \in 0..2
    /\ n_refs \in 1..2
    /\ SelectIdle
    /\ PrepareIdle
    /\ PostIdle
    /\ FlattenIdle
    /\ RunIdle

\* one call of prepare_prompted_inputs; example_selector, when given, is the
\* selector of this state
PreparePromptedInputs ==
    /\ pr_status = "idle"
    /\ \E call \in PrepareCalls :
           \E draws \in DrawChoices(call, examples, few_shot_n, n_refs) :
               LET out == prepare_prompted_inputs(call, examples, few_shot_n,
                                                  n_refs, draws)
               IN  /\ pr_call' = call
                   /\ pr_status' = out.status
                   /\ pr_result' = out.prompted_inputs
                   /\ pr_draws' = out.draws
    /\ UNCHANGED <<sel_vars, se_vars, po_vars, fl_vars, run_vars>>

PrepNext == PreparePromptedInputs

SpecPrep == PrepInit /\ [][PrepNext]_vars


----------------------------------------------------------------------------
(* Two runs of run_inference, each a process with its own generator        *)
(*                                                                         *)
(* The generator of the random module is a deterministic function of its   *)
(* state: here a linear congruential generator over a small modulus.       *)

\* number of batches of a run, and the largest seed
MaxBatches == 2
MaxSeed == 1

RngModulus == 8
RngStates == 0..(RngModulus - 1)

\* the generator after random.seed(seed)
SeedState(seed) == seed % RngModulus

\* the generator after one value was taken from it
RngNext(state) == (5 * state + 3) % RngModulus

\* s without its element at position j
RemoveAt(s, j) == SubSeq(s, 1, j - 1) \o SubSeq(s, j + 1, Len(s))

\* random.sample: k of the remaining positions, each picked with one
\* value of the generator
RECURSIVE SampleFrom(_, _, _)
SampleFrom(state, remaining, k) ==
    IF k = 0 THEN [picked |-> <<>>, state |-> state]
    ELSE LET j == (state % Len(remaining)) + 1
             rest == SampleFrom(RngNext(state), RemoveAt(remaining, j), k - 1)
         IN  [picked |-> <<remaining[j]>> \o rest.picked, state |-> rest.state]

\* random.sample(population, k) for a population of n, 0 <= k <= n
RandomSample(state, n, k) == SampleFrom(state, [i \in 1..n |-> i], k)

\* line 73 for the sampled exemplars from position e on, in order: a
\* sample per list target, nothing for a str target
RECURSIVE ReferenceSamples(_, _, _, _, _)
ReferenceSamples(state, pool, idx, e, nrefs) ==
    IF e > Len(idx) THEN [refs |-> <<>>, state |-> state, log |-> <<>>]
    ELSE LET target == pool[idx[e]].simple
         IN  IF target.list
             THEN LET n == Len(target.refs)
                      k == Min(nrefs, n)
                      got == RandomSample(state, n, k)
                      rest == ReferenceSamples(got.state, pool, idx, e + 1, nrefs)
                  IN  [refs |-> <<got.picked>> \o rest.refs,
                       state |-> rest.state,
                       log |-> <<<<n, k>>>> \o rest.log]
             ELSE LET rest == ReferenceSamples(state, pool, idx, e + 1, nrefs)
                  IN  [refs |-> <<<<>>>> \o rest.refs,
                       state |-> rest.state,
                       log |-> rest.log]

\* one call of select_examples on the generator: line 43, then line 73 for
\* each sampled exemplar
SelectionFromStream(state, pool, k, nrefs) ==
    LET got == RandomSample(state, Len(pool), k)
        refs == ReferenceSamples(got.state, pool, got.picked, 1, nrefs)
    IN  [draw |-> [idx |-> got.picked, refs |-> refs.refs],
         state |-> refs.state,
         log |-> <<<<Len(pool), k>>>> \o refs.log]

\* the selections of one call of prepare_prompted_inputs, input by input
RECURSIVE BatchFromStream(_, _, _, _, _)
BatchFromStream(state, ninputs, pool, k, nrefs) ==
    IF ninputs = 0 THEN [draws |-> <<>>, state |-> state, log |-> <<>>]
    ELSE LET one == SelectionFromStream(state, pool, k, nrefs)
             rest == BatchFromStream(one.state, ninputs - 1, pool, k, nrefs)
         IN  [draws |-> <<one.draw>> \o rest.draws,
              state |-> rest.state,
              log |-> one.log \o rest.log]

\* the generator without the call of set_seed: it keeps what it held
NotSeeded(state, seed) == state

\* inference.py line 34: set_seed(args.seed)
Seeded(state, seed) == SeedState(seed)

\* the batches of a run
Batches == {<<<<"X">>>>, <<<<"X">>, <<"P">>>>}

\* the prompt settings of a run (args), without the inputs
RunSettings ==
    [examples : {None},
     has_selector : {TRUE},
     prefix : {<<"P">>},
     suffix : {Suffix},
     example_prompt : {construct_example_template(ExampleTemplate,
                                                  "complex", "simple")},
     example_separator : {<<"\n", "\n">>},
     prompt_format : Layouts]

\* what the generators hold before set_seed
EntropyStates == {1, 6}

RunInit ==
    /\ examples \in PreparePools
    /\ few_shot_n \in 0..2
    /\ n_refs \in 1..2
    /\ run_call \in RunSettings
    /\ run_batches \in SeqsUpTo(Batches, MaxBatches) \ {<<>>}
    /\ run_seed = <<0, 0>>
    /\ run_pc = <<"start", "start">>
    /\ run_rng \in [1..2 -> EntropyStates]
    /\ run_prompts = <<<<>>, <<>>>>
    /\ run_draws = <<<<>>, <<>>>>
    /\ run_log = <<<<>>, <<>>>>
    /\ SelectIdle
    /\ PrepareIdle
    /\ PostIdle
    /\ FlattenIdle

\* inference.py line 34, in run r
SetSeed(r) ==
    /\ run_pc[r] = "start"
    /\ \E seed \in 0..MaxSeed :
           /\ run_seed' = [run_seed EXCEPT ![r] = seed]
           /\ run_rng' = [run_rng EXCEPT ![r] = Seeded(run_rng[r], seed)]
    /\ run_pc' = [run_pc EXCEPT ![r] = "seeded"]
    /\ UNCHANGED <<run_call, run_batches, run_prompts, run_draws, run_log>>
    /\ UNCHANGED <<sel_vars, se_vars, pr_vars, po_vars, fl_vars>>

\* inference.py lines 55-71, in run r: the prompts of the next batch
RunBatch(r) ==
    /\ run_pc[r] = "seeded"
    /\ LET b == Len(run_prompts[r]) + 1
           call == [inputs |-> run_batches[b]] @@ run_call
           sampled == Samples(call) /\ ~SampleFails(Len(examples), few_shot_n)
           stream == IF sampled
                     THEN BatchFromStream(run_rng[r], Len(call.inputs), examples,
                                          few_shot_n, n_refs)
                     ELSE [draws |-> [n \in 1..Len(call.inputs) |-> NoDraw],
                           state |-> run_rng[r], log |-> <<>>]
           out == prepare_prompted_inputs(call, examples, few_shot_n, n_refs,
                                          stream.draws)
       IN  /\ run_rng' = [run_rng EXCEPT ![r] = stream.state]
           /\ run_log' = [run_log EXCEPT ![r] = @ \o stream.log]
           /\ run_draws' = [run_draws EXCEPT ![r] = Append(@, out.draws)]
           /\ run_prompts' = [run_prompts EXCEPT
                                 ![r] = Append(@, out.prompted_inputs)]
           /\ run_pc' = [run_pc EXCEPT
                            ![r] = IF out.status # "ok" THEN "failed"
                                   ELSE IF b = Len(run_batches) THEN "done"
                                   ELSE "seeded"]
    /\ UNCHANGED <<run_call, run_batches, run_seed>>
    /\ UNCHANGED <<sel_vars, se_vars, pr_vars, po_vars, fl_vars>>

RunNext == \E r \in 1..2 : SetSeed(r) \/ RunBatch(r)

SpecRun == RunInit /\ [][RunNext]_vars

----------------------------------------------------------------------------
(* Properties of postprocess_model_outputs                                 *)

\* a call was made
PostCalled == po_status # "idle"

\* the (prompt, candidate) positions of the last call
PostPositions ==
    UNION {{<<i, j>> : j \in 1..Len(po_call.outputs[i])} :
              i \in 1..Len(po_call.outputs)}

HelloWorld == <<"H", "e", "l", "l", "o", " ", "w", "o", "r", "l", "d", ".">>

\* the call postprocess(["P1"], [["P1 Simple: Hello world.\n\nComplex: next"]], "\n\n")
HelloCall ==
    [inputs |-> <<<<"P", "1">>>>,
     outputs |-> << << <<"P", "1", " ">> \o SimpleLabel \o <<" ">> \o HelloWorld
                        \o <<"\n", "\n">> \o ComplexLabel
                        \o <<" ", "n", "e", "x", "t">> >> >>,
     separator |-> <<"\n", "\n">>]

\* C1: the call of the spec's example returns [["Hello world."]], and no
\* returned hypothesis begins with a task label followed by whitespace (a
\* label at the very start of the retained segment is removed too).
C1_LabelRemovedAtStart ==
    /\ (PostCalled /\ po_call = HelloCall)
           => (po_status = "ok" /\ po_result = <<<<HelloWorld>>>>)
    /\ po_status = "ok" =>
           \A p \in PostPositions :
               \A label \in {SimpleLabel, ComplexLabel} :
                   LET h == po_result[p[1]][p[2]]
                   IN  ~(StartsWith(h, label) /\ Len(h) > Len(label)
                          /\ h[Len(label) + 1] \in Whitespace)

\* C3: a call with a usable separator returns, with one list per prompt and
\* one hypothesis per candidate, whatever the candidates are.
C3_ShapeMirrorsInput ==
    (PostCalled /\ po_call.separator # <<>>) =>
        /\ po_status = "ok"
        /\ Len(po_result) = Len(po_call.inputs)
        /\ \A i \in 1..Len(po_result) :
               Len(po_result[i]) = Len(po_call.outputs[i])

\* C4 as stated: out_seq after step 1 is the candidate with the first
\* occurrence of the prompt removed, and trimmed.
C4_OnlyFirstOccurrenceRemoved ==
    PostCalled =>
        \A p \in PostPositions :
            po_trace[p[1]][p[2]].echo =
                StrStrip(RemoveFirst(po_call.outputs[p[1]][p[2]],
                                     po_call.inputs[p[1]]))

\* the starts of the occurrences of sub in s that a scan from position from
\* finds, left to right, never overlapping
RECURSIVE ScanOccurrences(_, _, _)
ScanOccurrences(s, sub, from) ==
    LET hits == {i \in from..(Len(s) - Len(sub) + 1) :
                    SubSeq(s, i, i + Len(sub) - 1) = sub}
    IN  IF sub = <<>> \/ hits = {} THEN {}
        ELSE LET i == CHOOSE h \in hits : \A j \in hits : h <= j
             IN  {i} \cup ScanOccurrences(s, sub, i + Len(sub))

\* s without the characters of those occurrences
WithoutOccurrences(s, sub) ==
    LET occ == ScanOccurrences(s, sub, 1)
        keep == {k \in 1..Len(s) : \A i \in occ : k < i \/ k >= i + Len(sub)}
    IN  [n \in 1..Cardinality(keep) |->
            s[CHOOSE k \in keep : Cardinality({j \in keep : j <= k}) = n]]

\* C4, amended: out_seq after step 1 is the candidate with every occurrence
\* of the prompt removed (left to right, non-overlapping), and trimmed; a
\* candidate without the prompt is only trimmed.
C4_EveryOccurrenceRemoved ==
    PostCalled =>
        \A p \in PostPositions :
            LET cand == po_call.outputs[p[1]][p[2]]
                prompt == po_call.inputs[p[1]]
                echo == po_trace[p[1]][p[2]].echo
            IN  /\ echo = StrStrip(WithoutOccurrences(cand, prompt))
                /\ ScanOccurrences(cand, prompt, 1) = {} => echo = StrStrip(cand)

\* a candidate with two occurrences of its prompt, and text that remains
C4_Witness ==
    /\ PostCalled
    /\ \E p \in PostPositions :
           /\ Cardinality(ScanOccurrences(po_call.outputs[p[1]][p[2]],
                                          po_call.inputs[p[1]], 1)) >= 2
           /\ po_trace[p[1]][p[2]].echo # <<>>

\* sub occurs in s at position i
OccursAt(s, sub, i) ==
    i >= 1 /\ i + Len(sub) - 1 <= Len(s) /\ SubSeq(s, i, i + Len(sub) - 1) = sub

\* C16: with a separator that is not empty, the segment kept by step 2 is
\* the echo-stripped candidate up to the first occurrence of the separator,
\* or all of it when the separator does not occur, and step 2 raises nothing.
C16_KeepsTextBeforeFirstSeparator ==
    (PostCalled /\ po_call.separator # <<>>) =>
        \A p \in PostPositions :
            LET t == po_trace[p[1]][p[2]]
                sep == po_call.separator
                k == Len(t.segment)
            IN  /\ t.status # "ValueError"
                /\ t.segment = SubSeq(t.echo, 1, k)
                /\ \A i \in 1..k : ~OccursAt(t.echo, sep, i)
                /\ \/ OccursAt(t.echo, sep, k + 1) /\ t.nsplit >= 2
                   \/ k = Len(t.echo) /\ t.nsplit = 1

\* a candidate was cut at the first of two separators
C16_Witness ==
    /\ po_status = "ok"
    /\ \E p \in PostPositions :
           /\ po_trace[p[1]][p[2]].nsplit = 3
           /\ po_trace[p[1]][p[2]].segment # <<>>
           /\ po_result[p[1]][p[2]] # <<>>

\* s holds a digit followed by a colon
HasDigitColon(s) ==
    \E i \in 1..(Len(s) - 1) : s[i] \in Digits /\ s[i + 1] = ":"

\* "First."
FirstOption == <<"F", "i", "r", "s", "t", ".">>

\* C17: for every candidate, step 4 gives the first non-empty trimmed
\* segment of the split on digit-colon when the retained text holds that
\* pattern ("0: First. 1: Second." gives "First."), and the retained text
\* unchanged when it does not.
C17_FirstSegmentOrUnchanged ==
    (PostCalled /\ po_call.separator # <<>>) =>
        \A p \in PostPositions :
            LET t == po_trace[p[1]][p[2]]
            IN  /\ t.status = "ok"
                /\ IF HasDigitColon(t.nonl)
                   THEN /\ t.ref = NonEmptyStripped(SplitDigitColon(t.nonl))[1]
                        /\ t.nonl = <<"0", ":", " ">> \o FirstOption
                                        \o <<" ", "1", ":", " ", "S", "e", "c",
                                             "o", "n", "d", ".">>
                               => t.ref = FirstOption
                   ELSE t.ref = t.nonl

\* C21: when the call returns, no hypothesis holds a newline character,
\* and none begins or ends with whitespace.
C21_NoNewlineAndTrimmed ==
    po_status = "ok" =>
        \A p \in PostPositions :
            LET h == po_result[p[1]][p[2]]
            IN  /\ \A i \in 1..Len(h) : h[i] # "\n"
                /\ h # <<>> => (h[1] \notin Whitespace
                                  /\ h[Len(h)] \notin Whitespace)

\* a retained segment with a newline inside and whitespace at its end came
\* back with a space in its place
C21_Witness ==
    /\ po_status = "ok"
    /\ \E p \in PostPositions :
           LET t == po_trace[p[1]][p[2]]
           IN  /\ \E i \in 2..(Len(t.segment) - 1) :
                      /\ t.segment[i] = "\n"
                      /\ t.segment[i - 1] \notin Whitespace
                      /\ t.segment[i + 1] \notin Whitespace
               /\ \E i \in 1..Len(t.value) : t.value[i] = " "
               /\ po_result[p[1]][p[2]] = t.value

----------------------------------------------------------------------------
(* Properties of prepare_prompted_inputs                                   *)

\* a call was made
PrepareCalled == pr_status # "idle"

\* the rendered exemplars of the prompt of input n of the last call
RenderedExamples(n) ==
    LET flat == IF pr_draws = <<>> THEN PassedExamples(pr_call).list
                ELSE select_examples(examples, few_shot_n, n_refs,
                                     pr_draws[n]).flat_examples
    IN  [e \in 1..Len(flat) |->
            TemplateFormat(pr_call.example_prompt.template, flat[e])]

\* the suffix with {input} replaced by input n
SuffixOf(n) == TemplateFormat(pr_call.suffix, [input |-> pr_call.inputs[n]])

\* "P\n\nS:X"
PromptPSX == <<"P", "\n", "\n", "S", ":", "X">>

\* C2: a call with a materialized exemplar list and no selector returns one
\* prompt per input, rendered from that list; for input "X", prefix_initial,
\* prefix "P", suffix "S:{input}", no exemplars and separator "\n\n" the
\* prompt is "P\n\nS:X".
C2_MaterializedListRendered ==
    (PrepareCalled /\ ~pr_call.examples.none /\ ~pr_call.has_selector
        /\ pr_call.prompt_format \in Layouts) =>
        /\ pr_status = "ok"
        /\ Len(pr_result) = Len(pr_call.inputs)
        /\ pr_draws = <<>>
        /\ (/\ pr_call.inputs = <<<<"X">>>>
            /\ pr_call.prompt_format = "prefix_initial"
            /\ pr_call.prefix = <<"P">>
            /\ pr_call.examples.list = <<>>
            /\ pr_call.example_separator = <<"\n", "\n">>)
               => pr_result = <<PromptPSX>>

\* prefix + separator + e1 + separator + ... + en + separator + suffix
RECURSIVE PrefixInitialString(_, _, _, _)
PrefixInitialString(prefix, separator, rendered, suffix) ==
    IF rendered = <<>> THEN prefix \o separator \o suffix
    ELSE PrefixInitialString(prefix \o separator \o Head(rendered), separator,
                             Tail(rendered), suffix)

\* C5: under prefix_initial every returned prompt is prefix + separator +
\* e1 + ... + separator + suffix-with-the-input, trimmed, whatever the text
\* of prefix, separator, exemplars and input.
C5_PrefixInitialJoin ==
    (pr_status = "ok" /\ pr_call.prompt_format = "prefix_initial") =>
        \A n \in 1..Len(pr_result) :
            pr_result[n] =
                StrStrip(PrefixInitialString(pr_call.prefix,
                                             pr_call.example_separator,
                                             RenderedExamples(n), SuffixOf(n)))

\* prefix + (separator + e + separator + prefix) for each exemplar
\*        + separator + suffix
RECURSIVE PrefixEveryString(_, _, _, _)
PrefixEveryString(prefix, separator, rendered, suffix) ==
    IF rendered = <<>> THEN prefix \o separator \o suffix
    ELSE prefix \o separator \o Head(rendered) \o separator
             \o PrefixEveryString(prefix, separator, Tail(rendered), suffix)

\* prefix + separator + prefix occurs in s
HasDoubledPrefix(s, prefix, separator) ==
    Find(s, prefix \o separator \o prefix) # 0

C7_UnknownLayoutFails ==
    (PrepareCalled /\ pr_call.prompt_format \notin Layouts) =>
        (pr_status # "ok" /\ pr_result = <<>>)

\* C8: a call with neither an exemplar list nor a selector ends with the
\* configuration error (RuntimeError), with no prompt rendered and nothing
\* sampled, for every batch of inputs.
C8_NoExemplarSourceFails ==
    (PrepareCalled /\ pr_call.examples.none /\ ~pr_call.has_selector) =>
        (pr_status = "RuntimeError" /\ pr_result = <<>> /\ pr_draws = <<>>)

\* such a call was made for a batch that is not empty, with a known layout
C8_Witness ==
    /\ PrepareCalled
    /\ pr_call.examples.none /\ ~pr_call.has_selector
    /\ Len(pr_call.inputs) >= 1
    /\ pr_call.prompt_format \in Layouts
    /\ pr_status = "RuntimeError"

\* s.endswith(p)
EndsWith(s, p) ==
    Len(p) <= Len(s) /\ SubSeq(s, Len(s) - Len(p) + 1, Len(s)) = p

\* the selector is the exemplar source of the last call
SelectorIsSource == pr_call.has_selector /\ pr_call.examples.none

\* C15: a call that has the selector as its exemplar source and returns,
\* returns one prompt per input, in input order; one selection was drawn
\* per input, in input order, and prompt n is rendered from selection n.
C15_FreshSelectionPerInput ==
    (pr_status = "ok" /\ SelectorIsSource) =>
        /\ Len(pr_result) = Len(pr_call.inputs)
        /\ Len(pr_draws) = Len(pr_call.inputs)
        /\ \A n \in 1..Len(pr_call.inputs) :
               /\ pr_draws[n] \in SelectionDraws(examples, few_shot_n, n_refs)
               /\ EndsWith(pr_result[n], SuffixOf(n))
               /\ pr_result[n] =
                      HeadCollapsed(
                          FewShotFormat(pr_call.prefix, RenderedExamples(n),
                                        pr_call.suffix, PassedSeparator(pr_call),
                                        pr_call.inputs[n]),
                          pr_call.prefix, pr_call.example_separator)

\* two inputs of one batch got different selections, and different prompts
C15_Witness ==
    /\ pr_status = "ok" /\ SelectorIsSource
    /\ Len(pr_call.inputs) = 2
    /\ pr_call.inputs[1] = pr_call.inputs[2]
    /\ pr_draws[1] # pr_draws[2]
    /\ pr_result[1] # pr_result[2]

\* the joined string of input n of the last call, before line 153
JoinedString(n) ==
    FewShotFormat(pr_call.prefix, RenderedExamples(n), pr_call.suffix,
                  PassedSeparator(pr_call), pr_call.inputs[n])

\* C19: every returned prompt is the joined string, trimmed, with nothing
\* else altered, except that under prefix_every a joined string that starts
\* with prefix + separator + prefix has that head replaced by the prefix;
\* occurrences of the pattern further in are left as they are.
C19_CollapseOnlyAtHead ==
    pr_status = "ok" =>
        \A n \in 1..Len(pr_result) :
            LET fsp == JoinedString(n)
                doubled == pr_call.prefix \o pr_call.example_separator
                               \o pr_call.prefix
            IN  pr_result[n] =
                    StrStrip(IF pr_call.prompt_format = "prefix_every"
                                   /\ StartsWith(fsp, doubled)
                             THEN pr_call.prefix \o Drop(fsp, Len(doubled) + 1)
                             ELSE fsp)

----------------------------------------------------------------------------
(* Properties of RandomExampleSelector                                     *)

\* the pool's records carry the fields select_examples reads
PoolHasDefaultFields ==
    \A i \in 1..Len(examples) : {"complex", "simple"} \subseteq DOMAIN examples[i]

\* flat is a flattening of the pool exemplar ex
IsFlatteningOf(flat, ex) ==
    \E d \in RefDrawsOf(ex, "simple", n_refs) :
        LET one == FlattenOne(ex, "complex", "simple", n_refs, d)
        IN  one.status = "ok" /\ one.flat_ex = flat

\* C9: select_examples with 0 <= few_shot_n <= |pool| returns exactly
\* few_shot_n flattened exemplars, and they come from few_shot_n distinct
\* positions of the pool.
C9_SelectsDistinctPositions ==
    (se_status # "idle" /\ PoolHasDefaultFields
        /\ 0 <= few_shot_n /\ few_shot_n <= Len(examples)) =>
        /\ se_status = "ok"
        /\ Len(se_result) = few_shot_n
        /\ \E f \in [1..few_shot_n -> 1..Len(examples)] :
               /\ \A a, b \in 1..few_shot_n : f[a] = f[b] => a = b
               /\ \A e \in 1..few_shot_n :
                      IsFlatteningOf(se_result[e], examples[f[e]])

\* two exemplars were selected from a pool that holds more than two
C9_Witness ==
    /\ se_status = "ok"
    /\ few_shot_n = 2
    /\ Len(examples) = 3
    /\ Len(se_result) = 2
    /\ se_result[1] # se_result[2]

\* every record of the pool carries exactly the fields of names
PoolKeyedBy(names) ==
    \A i \in 1..Len(examples) : DOMAIN examples[i] = {names[1], names[2]}

\* C14: for a pool whose records all use one pair of field names, whichever
\* it is, select_examples with 0 <= few_shot_n <= |pool| returns few_shot_n
\* flattened exemplars keyed by those names.
C14_AnyFieldNames ==
    \A names \in FieldNames :
        (se_status # "idle" /\ PoolKeyedBy(names)
            /\ 0 <= few_shot_n /\ few_shot_n <= Len(examples)) =>
            /\ se_status = "ok"
            /\ Len(se_result) = few_shot_n
            /\ \A e \in 1..Len(se_result) :
                   DOMAIN se_result[e] = {names[1], names[2]}

\* C20: a step of select_examples or flatten_references (a call or its
\* return) leaves the pool as it is; the pool changes only by one exemplar
\* appended at its end, and that step leaves the flattened exemplars
\* returned earlier as they are.
C20_PoolAppendOnly ==
    [][/\ (se_status' # se_status \/ fl_status' # fl_status)
              => examples' = examples
       /\ examples' # examples =>
              /\ Len(examples') = Len(examples) + 1
              /\ SubSeq(examples', 1, Len(examples)) = examples
              /\ se_status' = se_status /\ se_result' = se_result
              /\ fl_status' = fl_status /\ fl_result' = fl_result]_vars

\* the whole pool was flattened, an exemplar was added since, and the
\* flattened exemplars held are still those of the pool's first exemplars
C20_Witness ==
    /\ fl_status = "ok"
    /\ Len(fl_result) >= 1
    /\ Len(examples) > Len(fl_result)
    /\ fl_call.exs = SubSeq(examples, 1, Len(fl_result))
    /\ \A e \in 1..Len(fl_result) : IsFlatteningOf(fl_result[e], examples[e])

\* C10: select_examples with few_shot_n above the pool size raises the
\* sampling error (ValueError), returns no exemplars, and leaves the pool as
\* it was.
C10_SampleLargerThanPoolFails ==
    [][(se_status = "idle" /\ se_status' # "idle" /\ few_shot_n > Len(examples))
          => (se_status' = "ValueError" /\ se_result' = <<>>
                 /\ examples' = examples)]_vars

\* the call failed on a pool that is not empty
C10_Witness ==
    /\ se_status = "ValueError"
    /\ Len(examples) >= 1
    /\ few_shot_n > Len(examples)

----------------------------------------------------------------------------
(* Properties of flatten_references                                        *)

\* the target of exemplar e of the last direct call, and what came of it
FlatTarget(e) == fl_call.exs[e][fl_call.tgt_key]
FlatString(e) == fl_result[e][fl_call.tgt_key]

\* the number of digit-colon index marks in s
IndexMarks(s) ==
    Cardinality({i \in 1..(Len(s) - 1) : s[i] \in Digits /\ s[i + 1] = ":"})

C12_OneReferenceVerbatim ==
    fl_status = "ok" =>
        \A e \in 1..Len(fl_call.exs) :
            /\ fl_result[e][fl_call.src_key] = fl_call.exs[e][fl_call.src_key]
            /\ ~FlatTarget(e).list => FlatString(e) = FlatTarget(e).text
            /\ (FlatTarget(e).list /\ fl_call.n_refs = 1) =>
                   \E r \in 1..Len(FlatTarget(e).refs) :
                       FlatString(e) = FlatTarget(e).refs[r]

\* C12, amended: the source is copied, a str target is copied for every
\* n_refs, and a list target with n_refs = 1 gives one of the list's
\* references, verbatim, when the list has one; an empty list gives the
\* empty string.
C12_VerbatimUnlessEmptyList ==
    fl_status = "ok" =>
        \A e \in 1..Len(fl_call.exs) :
            /\ fl_result[e][fl_call.src_key] = fl_call.exs[e][fl_call.src_key]
            /\ DOMAIN fl_result[e] = {fl_call.src_key, fl_call.tgt_key}
            /\ ~FlatTarget(e).list => FlatString(e) = FlatTarget(e).text
            /\ (FlatTarget(e).list /\ fl_call.n_refs = 1) =>
                   IF FlatTarget(e).refs = <<>> THEN FlatString(e) = <<>>
                   ELSE /\ Len(fl_draws[e]) = 1
                        /\ FlatString(e) = FlatTarget(e).refs[fl_draws[e][1]]

\* one of two references came back verbatim beside a copied str target
C12_Witness ==
    /\ fl_status = "ok"
    /\ fl_call.n_refs = 1
    /\ \E e \in 1..Len(fl_call.exs) :
           FlatTarget(e).list /\ Len(FlatTarget(e).refs) = 2
               /\ FlatString(e) = <<"v">>
    /\ \E e \in 1..Len(fl_call.exs) :
           ~FlatTarget(e).list /\ FlatString(e) = <<"t">>

\* the exemplar offers fewer references than n_refs
ShortOfReferences(target, nrefs) ==
    IF target.list THEN Len(target.refs) < nrefs ELSE nrefs > 1

\* C13: a call whose exemplars carry the fields returns, and a warning is
\* emitted for exactly the exemplars that offer fewer references than n_refs.
C13_WarnsExactlyWhenShort ==
    (fl_status # "idle"
        /\ FlattenHandled(fl_call.exs, fl_call.src_key, fl_call.tgt_key)
               = Len(fl_call.exs)) =>
        /\ fl_status = "ok"
        /\ \A e \in 1..Len(fl_call.exs) :
               fl_warned[e] <=> ShortOfReferences(FlatTarget(e), fl_call.n_refs)

----------------------------------------------------------------------------
(* Properties of two runs                                                  *)

\* the calls of random.sample that the selections draws stand for: per
\* input the exemplar sample, then a reference sample for each sampled
\* exemplar with a list target, in the order sampled
ExpectedLog(draws) ==
    Concat([n \in 1..Len(draws) |->
        <<<<Len(examples), few_shot_n>>>> \o
        Concat([e \in 1..Len(draws[n].idx) |->
            LET target == examples[draws[n].idx[e]].simple
            IN  IF target.list
                THEN <<<<Len(target.refs), Min(n_refs, Len(target.refs))>>>>
                ELSE <<>>])])

====
